---- MODULE Spec2Model ----
(***************************************************************************)
(* A model of sbomaudit: the SBOMaudit object (audit.py) and the command   *)
(* line entry point (cli.py).                                              *)
(*                                                                         *)
(* Python values are represented as follows.  An optional string is a      *)
(* string, with None standing for Python's None.  A local variable of      *)
(* audit_sbom that has not been assigned yet holds Unbound; reading it     *)
(* raises UnboundLocalError, which ends the call: loc.raised names the     *)
(* exception and pc stays where it was raised.  A formatted message        *)
(* f"{a}{b}" is the tuple <<a, b>>.  A release time stamp is represented   *)
(* by its age in days at audit time, NoDate standing for None.             *)
(***************************************************************************)
EXTENDS Integers, Sequences, FiniteSets, TLC

VARIABLES
    self,       \* the SBOMaudit object: its fields, and the history of recorder calls
    loc,        \* the local variables of the running audit_sbom frame
    pc,         \* the position of the running call
    i,          \* index of the file / package the loop of audit_sbom is at
    sbom,       \* what sbom_parser returns: document, files, packages, relationships
    registry,   \* what the package registries answer (requests / lib4package)
    lookups,    \* number of metadata lookups issued so far
    cli         \* the state of main(): arguments, file system, exit code

vars == <<self, loc, pc, i, sbom, registry, lookups, cli>>

None == "<None>"
Unbound == "<unbound>"
NoDate == -1
NOASSERTION == "NOASSERTION"
NOT_KNOWN == "NOT KNOWN"

\* ---------------------------------------------------------------- bounds
MaxFiles == 2
MaxPackages == 2
MaxRelationships == 1
MaxCalls == 3

DAYS_IN_YEAR == 365

\* bool(x) for an optional string: None and "" are falsy
Truthy(x) == x # None /\ x # ""

\* ------------------------------------------------------------ __init__
Options(verbose, offline, cpecheck, purlcheck, license_check, age, maxage, debug) ==
    [verbose |-> verbose, offline |-> offline, cpecheck |-> cpecheck,
     purlcheck |-> purlcheck, license_check |-> license_check,
     age |-> age, maxage |-> maxage, debug |-> debug]

DefaultOptions == Options(FALSE, FALSE, FALSE, FALSE, TRUE, 0, 2, FALSE)

\* A policy list is a dict from category to the list of its entries.
EmptyDict == [k \in {} |-> <<>>]

\* d.get(category, None) is not None
Declared(d, category) == category \in DOMAIN d

\* x in list
InList(x, list) == \E j \in 1..Len(list) : list[j] = x

\* a faulty constructor: maxage kept in years, not multiplied by DAYS_IN_YEAR
SBOMaudit_MaxageInYears(options, output) ==
    [verbose |-> options.verbose,
     offline |-> options.offline,
     cpe_check |-> options.cpecheck,
     purl_check |-> options.purlcheck,
     license_check |-> options.license_check,
     age |-> options.age,
     debug |-> options.debug,
     maxage |-> options.maxage,
     check_count |-> [Fail |-> 0, Pass |-> 0],
     policy_check_count |-> [Fail |-> 0, Pass |-> 0],
     allow_list |-> EmptyDict,
     deny_list |-> EmptyDict,
     audit |-> EmptyDict,
     package_component |-> <<>>,
     file_component |-> <<>>,
     policy_component |-> <<>>,
     component |-> <<>>,
     console_out |-> (output = ""),
     console |-> 0,
     calls |-> <<>>]

SBOMaudit(options, output) ==
    [verbose |-> options.verbose,
     offline |-> options.offline,
     cpe_check |-> options.cpecheck,
     purl_check |-> options.purlcheck,
     license_check |-> options.license_check,
     age |-> options.age,
     debug |-> options.debug,
     maxage |-> options.maxage * DAYS_IN_YEAR,
     check_count |-> [Fail |-> 0, Pass |-> 0],
     policy_check_count |-> [Fail |-> 0, Pass |-> 0],
     allow_list |-> EmptyDict,
     deny_list |-> EmptyDict,
     audit |-> EmptyDict,
     package_component |-> <<>>,
     file_component |-> <<>>,
     policy_component |-> <<>>,
     component |-> <<>>,
     console_out |-> (output = ""),
     console |-> 0,
     calls |-> <<>>]

\* ------------------------------------------------------- check recorder
\* _component_message: append to the section buffer or to the policy buffer
_component_message(s, message, state, policy) ==
    LET element == [text |-> message, state |-> state] IN
    IF ~policy
    THEN [s EXCEPT !.component = Append(@, element)]
    ELSE [s EXCEPT !.policy_component = Append(@, element)]

\* _send_to_console: prints only when no output file was given
_send_to_console(s) ==
    IF s.console_out THEN [s EXCEPT !.console = @ + 1] ELSE s

_show_text(s, text, policy) ==
    _component_message(_send_to_console(s), text, "Pass", policy)

\* a faulty CountPass: a pass counted in the ordinary tier whatever the tier
CountPass_OrdinaryOnly(s, policy) ==
    [s EXCEPT !.check_count.Pass = @ + 1]

\* the counter updates of _show_result
CountPass(s, policy) ==
    IF ~policy
    THEN [s EXCEPT !.check_count.Pass = @ + 1]
    ELSE [s EXCEPT !.policy_check_count.Pass = @ + 1]

CountFail(s, policy) ==
    IF ~policy
    THEN [s EXCEPT !.check_count.Fail = @ + 1]
    ELSE [s EXCEPT !.policy_check_count.Fail = @ + 1]

\* the message of a failed check: value, else failure_text, else the bare text
FailMessage(text, value, failure_text) ==
    IF value # None THEN text \o <<": ", value>>
    ELSE IF Len(failure_text) > 0
         THEN text \o <<": ">> \o failure_text
         ELSE text

\* calls is the history of the calls of _show_result (text, state, tier)
Logged(s, text, state, policy) ==
    [s EXCEPT !.calls = Append(@, [text |-> text, state |-> state, policy |-> policy])]

\* a faulty ShowPass: a passed check shown whether verbose or not
ShowPass_Always(s, text, policy) == _show_text(s, text, policy)

\* lines 72-73: a passed check is shown only when verbose
ShowPass(s, text, policy) ==
    IF s.verbose THEN _show_text(s, text, policy) ELSE s

\* lines 70-92, on the object with the call noted in its history
ShowResult(s, text, state, value, failure_text, policy) ==
    IF state
    THEN CountPass(ShowPass(s, text, policy), policy)
    ELSE CountFail(_component_message(_send_to_console(s),
                                      FailMessage(text, value, failure_text),
                                      "Fail", policy),
                   policy)

_show_result(s, text, state, value, failure_text, policy) ==
    ShowResult(Logged(s, text, state, policy), text, state, value, failure_text, policy)

_check_value(s, text, values, data_item) ==
    _show_result(s, text, data_item \in values, data_item, <<"MISSING">>, FALSE)

_check(s, text, value, failure_text, policy) ==
    _show_result(s, text, value, None, failure_text, policy)

MISSING == <<"MISSING">>

\* a faulty CheckIf: the check made whether or not its condition holds
CheckIf_Always(cond, s, text, value, failure_text, policy) ==
    _check(s, text, value, failure_text, policy)

\* a check that is made only under a condition ("if ...: self._check(...)")
CheckIf(cond, s, text, value, failure_text, policy) ==
    IF cond THEN _check(s, text, value, failure_text, policy) ELSE s

\* "Report if all checks passed": shown only when not verbose and no new failure
_report_if_passed(s, fail_count, text) ==
    IF ~s.verbose /\ s.check_count.Fail = fail_count
    THEN _show_text(s, text, FALSE)
    ELSE s

\* self.audit[key] = value
SetAudit(s, key, value) ==
    [s EXCEPT !.audit = [k \in (DOMAIN @) \cup {key} |-> IF k = key THEN value ELSE @[k]]]

\* ------------------------------------------------- license classifier
\* lib4sbom's LicenseScanner, by its answers on the licenses used here
find_license(license) ==
    IF license \in {"MIT", "GPL-3.0", "Apache-2.0"} THEN license
    ELSE IF license = NOASSERTION THEN NOASSERTION
    ELSE "UNKNOWN"

osi_approved(license) == license \in {"MIT", "GPL-3.0", "Apache-2.0"}

deprecated(license) == license = "GPL-3.0"

\* ------------------------------------------------- audit_sbom: document
\* the frame of a fresh call: no local is bound yet
NewFrame ==
    [fail_count |-> 0,
     creation_time |-> FALSE, creation_time_bound |-> FALSE,
     creator_identified |-> FALSE,
     relationships_valid |-> FALSE,
     files_valid |-> TRUE,
     packages_valid |-> TRUE,
     id |-> Unbound, name |-> Unbound, version |-> Unbound, supplier |-> Unbound,
     purl |-> [type |-> Unbound, name |-> Unbound], purl_name |-> Unbound,
     valid_sbom |-> FALSE,
     raised |-> None]

SPDX_VERSIONS == {"SPDX-2.2", "SPDX-2.3"}
CYCLONEDX_VERSIONS == {"1.3", "1.4", "1.5"}

Lower(t) == IF t \in {"SPDX", "spdx"} THEN "spdx"
            ELSE IF t \in {"CycloneDX", "cyclonedx"} THEN "cyclonedx" ELSE t

\* lines 196-197, 333-334, 524-525, 564-565: the section buffer goes into the
\* report tree under key, and is emptied
CloseSection(s, key, value) ==
    [SetAudit(s, key, value) EXCEPT !.component = <<>>]

\* lines 168-179: the version check of a document whose kind is known
VersionCheck(s, document) ==
    IF Lower(document.type) = "spdx"
    THEN _check_value(s, <<"Up to date SPDX Version">>, SPDX_VERSIONS, document.version)
    ELSE _check_value(s, <<"Up to date CycloneDX Version">>, CYCLONEDX_VERSIONS,
                      document.version)

\* lines 166-189: the checks of the document
DocumentChecks(s, document) ==
    IF document.type # None
    THEN _check(_check(VersionCheck(s, document),
                       <<"SBOM Creator identified">>, Len(document.creator) > 0,
                       MISSING, FALSE),
                <<"SBOM Creation time defined">>, document.created # None,
                MISSING, FALSE)
    ELSE _check(s, <<"SBOM Format">>, FALSE, <<"INVALID">>, FALSE)

\* lines 180-182, 188-189: the locals the document auditor assigns
DocumentLocals(l, document, relationships) ==
    IF document.type # None
    THEN [l EXCEPT !.creation_time = document.created # None,
                   !.creation_time_bound = TRUE,
                   !.creator_identified = Len(document.creator) > 0,
                   !.relationships_valid = Len(relationships) > 0]
    ELSE [l EXCEPT !.creator_identified = FALSE,
                   !.relationships_valid = FALSE]

MetadataSection(s) == CloseSection(s, "metadata", s.component)

\* lines 160-197: the document auditor
AuditDocumentStep(s0, l0, document, relationships) ==
    [s |-> MetadataSection(
               _report_if_passed(
                   DocumentChecks([s0 EXCEPT !.component = <<>>], document),
                   s0.check_count.Fail, <<"Valid SBOM Format">>)),
     l |-> DocumentLocals([l0 EXCEPT !.fail_count = s0.check_count.Fail],
                          document, relationships)]

\* ---------------------------------------------------- audit_sbom: files
\* lines 239-266 / 282-309: license quality checks, then allow and deny checks
\* (key names the record in the message; dkey is what line 293 formats)
LicenseChecks(s0, key, dkey, license, forPackage) ==
    LET allow == Declared(s0.allow_list, "license")
        deny == Declared(s0.deny_list, "license")
        pkg == IF forPackage THEN <<"package ">> ELSE <<>>
        quality == IF forPackage
                   THEN s0.license_check /\ license \notin {NOT_KNOWN, NOASSERTION}
                   ELSE s0.license_check
        s1 == CheckIf(quality, s0,
                      <<"SPDX Compatible License id included for ">> \o pkg \o <<key>>,
                      find_license(license) \notin {"UNKNOWN", NOASSERTION},
                      <<license>>, FALSE)
        s2 == CheckIf(quality, s1, <<"OSI Approved license for ", key>>,
                      osi_approved(license), MISSING, FALSE)
        s3 == CheckIf(quality, s2, <<"Non-deprecated license for ", dkey>>,
                      ~deprecated(license), MISSING, FALSE)
        s4 == CheckIf(allow, s3, <<"Allowed License check for ">> \o pkg \o <<key>>,
                      allow /\ InList(license, s0.allow_list["license"]),
                      <<license, " not allowed">>, TRUE)
        s5 == CheckIf(deny, s4, <<"Denied License check for ">> \o pkg \o <<key>>,
                      ~(deny /\ InList(license, s0.deny_list["license"])),
                      <<license, " not allowed">>, TRUE)
    IN s5

\* lines 217-314: the checks of a file that has an identifier
FileChecks(s0, file) ==
    LET id == file.id
        name == file.name
        license == file.licenseconcluded
        copyright == file.copyrighttext
        key == IF name # None THEN name ELSE id
        s1 == _check(s0, <<"File name specified - ", name>>, Truthy(name), MISSING, FALSE)
        s2 == _check(s1, <<"File type identified - ", key>>, file.filetype # None,
                     MISSING, FALSE)
        s3 == _check(s2, <<"License specified - ", key>>,
                     license \notin {None, NOASSERTION}, <<>>, FALSE)
        s4 == LicenseChecks(s3, key, name, license, FALSE)
        s5 == _check(s4, <<"Copyright defined - ", key>>,
                     copyright \notin {None, NOASSERTION}, <<>>, FALSE)
    IN s5

\* lines 315-321: close the record's section; reading a local that was never
\* assigned raises UnboundLocalError
CloseFile(c) ==
    IF Len(c.s.component) > 0
    THEN IF c.l.name = Unbound
         THEN [s |-> c.s, l |-> [c.l EXCEPT !.raised = "UnboundLocalError"]]
         ELSE [s |-> [c.s EXCEPT !.file_component =
                          Append(@, [name |-> c.l.name, id |-> c.l.id,
                                     reports |-> c.s.component]),
                                 !.component = <<>>],
               l |-> c.l]
    ELSE c

\* lines 323-324
FileInvalid(l) == l.id = None \/ l.name = None

FileValidity(c) ==
    IF c.l.raised = None /\ FileInvalid(c.l)
    THEN [c EXCEPT !.l.files_valid = FALSE]
    ELSE c

\* lines 212-314: the identifier, and the checks it leads to
FileChecked(s0, l0, file) ==
    IF file.id = None
    THEN [s |-> _check(s0, <<"File id missing">>, Truthy(file.id), MISSING, FALSE),
          l |-> [l0 EXCEPT !.id = file.id]]
    ELSE [s |-> FileChecks(s0, file),
          l |-> [l0 EXCEPT !.id = file.id, !.name = file.name]]

\* lines 211-324: one iteration of the file loop
AuditFileStep(s0, l0, file) ==
    FileValidity(CloseFile(FileChecked(s0, l0, file)))

FilesSection(s) == CloseSection(s, "files", s.file_component)

\* lines 325-334: after the file loop
FilesEnd(s0, l0) ==
    FilesSection(
        _report_if_passed(
            _check(s0, <<"NTIA compliant">>, l0.files_valid, <<"FAILED">>, FALSE),
            l0.fail_count, <<"File Summary">>))

\* ------------------------------------------------- audit_sbom: packages
\* PackageURL.from_string(locator).to_dict(), by its answers on the locators used
\* here; ok = FALSE stands for the ValueError of a locator that is no PURL
PurlFromString(locator) ==
    CASE locator = "pkg:pypi/foo@1.0" -> [ok |-> TRUE, type |-> "pypi", name |-> "foo"]
      [] locator = "pkg:npm/foo@1.0" -> [ok |-> TRUE, type |-> "npm", name |-> "foo"]
      [] locator = "pkg:pypi/bar@1.0" -> [ok |-> TRUE, type |-> "pypi", name |-> "bar"]
      [] OTHER -> [ok |-> FALSE, type |-> Unbound, name |-> Unbound]

\* find_latest_version: (version, release time) from the PyPI answer; any failure
\* leaves what was not yet assigned as None
find_latest_version(reg, name, version) ==
    IF name \notin reg.names
    THEN <<version, NoDate>>
    ELSE LET v == IF version = None THEN reg.latest ELSE version
         IN <<v, IF v \in DOMAIN reg.age THEN reg.age[v] ELSE NoDate>>

\* get_package_info: the latest version and the release time of the latest version
get_package_info(reg, name, type) ==
    IF name \notin reg.names
    THEN <<None, NoDate>>
    ELSE <<reg.latest, IF reg.latest \in DOMAIN reg.age THEN reg.age[reg.latest]
                       ELSE NoDate>>

\* lines 356-359: the state of the loop over the external references
NoRefs(l) ==
    [latest_version |-> None, latest_date |-> NoDate,
     purl_used |-> FALSE, cpe_used |-> FALSE,
     purl |-> l.purl, purl_bound |-> l.purl.type # Unbound,
     purl_name |-> l.purl_name, lookups |-> 0, raised |-> None]

\* a faulty MetadataLookup: the registries asked even when offline
MetadataLookup_Always(s, reg, name, version, r, type) ==
    IF type = "pypi"
    THEN [r EXCEPT !.latest_version = find_latest_version(reg, name, None)[1],
                   !.latest_date = find_latest_version(reg, name, version)[2],
                   !.lookups = @ + 2]
    ELSE [r EXCEPT !.latest_version = get_package_info(reg, name, type)[1],
                   !.latest_date = get_package_info(reg, name, type)[2],
                   !.lookups = @ + 1]

\* lines 372-388: unless offline, ask PyPI twice, or lib4package once
MetadataLookup(s, reg, name, version, r, type) ==
    IF s.offline THEN r
    ELSE IF type = "pypi"
    THEN [r EXCEPT !.latest_version = find_latest_version(reg, name, None)[1],
                   !.latest_date = find_latest_version(reg, name, version)[2],
                   !.lookups = @ + 2]
    ELSE [r EXCEPT !.latest_version = get_package_info(reg, name, type)[1],
                   !.latest_date = get_package_info(reg, name, type)[2],
                   !.lookups = @ + 1]

\* lines 367-391: the locator is parsed; ValueError demotes purl_used
Located(s, reg, name, version, r, parsed) ==
    IF ~parsed.ok
    THEN [r EXCEPT !.purl_used = FALSE]
    ELSE [MetadataLookup(s, reg, name, version, r, parsed.type)
              EXCEPT !.purl_used = TRUE,
                     !.purl = [type |-> parsed.type, name |-> parsed.name],
                     !.purl_bound = TRUE,
                     !.purl_name = parsed.name]

\* lines 392-395: the debug print reads purl
DebugPrint(s, r) ==
    IF s.debug /\ ~r.purl_bound
    THEN [r EXCEPT !.raised = "UnboundLocalError"]
    ELSE r

\* lines 363-397: one external reference
ExternalRef(s, reg, name, version, r, ref) ==
    IF ref[1] \in {"PACKAGE-MANAGER", "PACKAGE_MANAGER"}
    THEN DebugPrint(s, Located(s, reg, name, version, r, PurlFromString(ref[3])))
    ELSE IF ref[2] \in {"cpe22Type", "cpe23Type"}
    THEN [r EXCEPT !.cpe_used = TRUE]
    ELSE r

\* lines 360-397: the loop over the external references, ended by a raise
RECURSIVE ExternalRefs(_, _, _, _, _, _)
ExternalRefs(s, reg, name, version, r, refs) ==
    IF refs = <<>> \/ r.raised # None
    THEN r
    ELSE ExternalRefs(s, reg, name, version,
                      ExternalRef(s, reg, name, version, r, Head(refs)), Tail(refs))

\* lines 400-498: "Now summarise"
PackageChecks(s0, package, r) ==
    LET id == package.id
        name == package.name
        version == package.version
        supplier == package.supplier
        license == IF package.licenseconcluded = None THEN NOT_KNOWN
                   ELSE package.licenseconcluded
    IN IF name = None
       THEN _check(s0, <<"Package name missing for ", id>>, FALSE, MISSING, FALSE)
       ELSE
       LET allow == Declared(s0.allow_list, "package")
           deny == Declared(s0.deny_list, "package")
           dated == r.latest_date # NoDate
           s1 == CheckIf(allow, s0, <<"Allowed Package check for package ", name>>,
                         allow /\ InList(name, s0.allow_list["package"]),
                         <<name, " not allowed">>, TRUE)
           s2 == CheckIf(deny, s1, <<"Denied Package check for package ", name>>,
                         ~(deny /\ InList(name, s0.deny_list["package"])),
                         <<name, " not allowed">>, TRUE)
           s3 == _check(s2, <<"Supplier included for package ", name>>,
                        Truthy(supplier), MISSING, FALSE)
           s4 == _check(s3, <<"Version included for package ", name>>,
                        Truthy(version), MISSING, FALSE)
           s5 == _check(s4, <<"License included for package ", name>>,
                        license \notin {NOT_KNOWN, NOASSERTION}, MISSING, FALSE)
           s6 == LicenseChecks(s5, name, name, license, TRUE)
           s7 == CheckIf(r.latest_version # None, s6,
                         <<"Using latest version of package ", name>>,
                         r.latest_version = version,
                         <<"Version is ", version, "; latest is ", r.latest_version>>,
                         FALSE)
           s8 == CheckIf(dated, s7, <<"Using mature version of package ", name>>,
                         r.latest_date > s0.age,
                         <<"Age of release is ", r.latest_date, " days">>, TRUE)
           s9 == CheckIf(dated /\ r.latest_version # None /\ r.latest_version # version,
                         s8, <<"Using old version of package ", name>>,
                         r.latest_date < s0.maxage,
                         <<"Age of release is ", r.latest_date, " days">>, TRUE)
           s10 == CheckIf(s0.cpe_check, s9, <<"CPE name included for package ", name>>,
                          r.cpe_used, MISSING, FALSE)
           s11 == CheckIf(s0.purl_check, s10, <<"PURL included for package ", name>>,
                          r.purl_used, <<"MISSING or INVALID">>, FALSE)
           s12 == CheckIf(s0.purl_check /\ r.purl_used, s11,
                          <<"PURL name compatible with package ", name>>,
                          r.purl_name = name, MISSING, FALSE)
       IN s12

\* lines 500-506
ClosePackage(c) ==
    IF Len(c.s.component) > 0
    THEN IF c.l.name = Unbound \/ c.l.version = Unbound
         THEN [c EXCEPT !.l.raised = "UnboundLocalError"]
         ELSE [c EXCEPT !.s.package_component =
                            Append(@, [name |-> c.l.name, version |-> c.l.version,
                                       reports |-> c.s.component]),
                        !.s.component = <<>>]
    ELSE c

\* lines 508-515
PackageInvalid(l) ==
    \/ l.id = None
    \/ l.name = None
    \/ l.version = None
    \/ l.supplier = None
    \/ l.supplier = NOASSERTION

\* a faulty PackageValidity: a failed policy check makes the packages invalid
PackageValidity_ByPolicy(c) ==
    IF c.l.raised = None /\ (PackageInvalid(c.l) \/ c.s.policy_check_count.Fail > 0)
    THEN [c EXCEPT !.l.packages_valid = FALSE]
    ELSE c

PackageValidity(c) ==
    IF c.l.raised = None /\ PackageInvalid(c.l)
    THEN [c EXCEPT !.l.packages_valid = FALSE]
    ELSE c

\* lines 399-498, after the loop over the external references ended in r
Summarised(s0, l, package, r) ==
    IF r.raised # None
    THEN [s |-> s0, l |-> [l EXCEPT !.raised = r.raised], n |-> r.lookups]
    ELSE [s |-> PackageChecks(s0, package, r),
          l |-> [l EXCEPT !.purl = r.purl, !.purl_name = r.purl_name],
          n |-> r.lookups]

\* lines 346-397: the locals of a package that has an identifier
PackageLocals(l0, package) ==
    [l0 EXCEPT !.id = package.id, !.name = package.name,
               !.version = package.version, !.supplier = package.supplier]

\* lines 341-498: the identifier, and the checks it leads to
PackageChecked(s0, l0, reg, package) ==
    IF package.id = None
    THEN [s |-> _check(s0, <<"Package id missing">>, Truthy(package.id), MISSING, FALSE),
          l |-> [l0 EXCEPT !.id = package.id],
          n |-> 0]
    ELSE Summarised(s0, PackageLocals(l0, package), package,
                    ExternalRefs(s0, reg, package.name, package.version,
                                 NoRefs(l0), package.externalreference))

\* lines 340-515: one iteration of the package loop; n is the number of
\* metadata lookups it issued
AuditPackageStep(s0, l0, reg, package) ==
    PackageValidity(ClosePackage(PackageChecked(s0, l0, reg, package)))

PackagesSection(s) == CloseSection(s, "packages", s.package_component)

\* lines 516-525: after the package loop
PackagesEnd(s0, l0) ==
    PackagesSection(
        _report_if_passed(
            _check(s0, <<"NTIA compliant">>, l0.packages_valid, <<"FAILED">>, FALSE),
            l0.fail_count, <<"Package Summary">>))

\* ---------------------------------------------- audit_sbom: relationships
\* lines 540-546 / 550-556
dep_check(name, relationships) ==
    /\ name # None
    /\ \E k \in 1..Len(relationships) :
          name \in {relationships[k].source, relationships[k].target}

RECURSIVE DependencyChecks(_, _, _)
DependencyChecks(s, records, relationships) ==
    IF records = <<>> THEN s
    ELSE DependencyChecks(
             _check(s, <<"Dependency relationship found for ", Head(records).name>>,
                    dep_check(Head(records).name, relationships), MISSING, FALSE),
             Tail(records), relationships)

RelationshipsSection(s) == CloseSection(s, "relationships", s.component)

\* line 527
PolicySection(s) == SetAudit(s, "policy", s.policy_component)

\* lines 532-556: the checks of the relationship auditor
RelationshipChecks(s, l, files, packages, relationships) ==
    DependencyChecks(
        DependencyChecks(
            _check(s, <<"Dependency relationships provided for NTIA compliance">>,
                   l.relationships_valid, MISSING, FALSE),
            files, relationships),
        packages, relationships)

\* lines 539, 549: the loops rebind name
LastName(l, files, packages) ==
    IF Len(packages) > 0 THEN packages[Len(packages)].name
    ELSE IF Len(files) > 0 THEN files[Len(files)].name
    ELSE l.name

\* lines 527-565
AuditRelationshipsStep(s0, l0, files, packages, relationships) ==
    [s |-> RelationshipsSection(
               _report_if_passed(
                   RelationshipChecks(PolicySection(s0), l0, files, packages,
                                      relationships),
                   s0.check_count.Fail, <<"Relationships Summary">>)),
     l |-> [l0 EXCEPT !.fail_count = s0.check_count.Fail,
                      !.name = LastName(l0, files, packages)]]

\* ---------------------------------------------- audit_sbom: the verdict
\* a faulty valid_sbom: the and-chain without its last operand
valid_sbom_NoRelationships(l) ==
    l.files_valid /\ l.packages_valid /\ l.creator_identified /\ l.creation_time

\* lines 570-576: the and-chain stops at its first false operand, so
\* creation_time is read only when the three operands before it are true
valid_sbom(l) ==
    IF ~l.files_valid THEN FALSE
    ELSE IF ~l.packages_valid THEN FALSE
    ELSE IF ~l.creator_identified THEN FALSE
    ELSE IF ~l.creation_time THEN FALSE
    ELSE l.relationships_valid

\* the read of creation_time at line 574 raises when it was never assigned
VerdictRaises(l) ==
    l.files_valid /\ l.packages_valid /\ l.creator_identified /\ ~l.creation_time_bound

\* lines 585-592: the tally, always shown
ShowCount(s, label, count) == _show_text(s, <<label, count>>, FALSE)

Tally4(s) == ShowCount(s, "Policy checks failed ", s.policy_check_count.Fail)
Tally3(s) == Tally4(ShowCount(s, "Policy checks passed ", s.policy_check_count.Pass))
Tally2(s) == Tally3(ShowCount(s, "Checks failed ", s.check_count.Fail))
Tally1(s) == Tally2(ShowCount(s, "Checks passed ", s.check_count.Pass))

SummarySection(s) == SetAudit(s, "summary", s.component)

\* lines 567-594
AuditSummaryStep(s0, l0) ==
    IF VerdictRaises(l0)
    THEN [s |-> s0, l |-> [l0 EXCEPT !.raised = "UnboundLocalError"]]
    ELSE [s |-> SummarySection(
                    Tally1([_report_if_passed(
                                _check(s0, <<"NTIA conformant">>, valid_sbom(l0),
                                       <<"FAILED">>, FALSE),
                                s0.check_count.Fail, <<"NTIA Summary">>)
                            EXCEPT !.verbose = TRUE])),
          l |-> [l0 EXCEPT !.fail_count = s0.check_count.Fail,
                           !.valid_sbom = valid_sbom(l0)]]

\* ------------------------------------------------ audit_sbom: control flow
\* The running call: the object, the frame, the position, the loop index and
\* the number of metadata lookups issued.
AfterFiles(sb) == IF Len(sb.packages) > 0 THEN "packages" ELSE "relationships"

AfterDocument(sb) == IF Len(sb.files) > 0 THEN "files" ELSE AfterFiles(sb)

\* line 209 / 338: fail_count is taken when the loop is entered
EnterLoop(st) ==
    IF st.i = 1 THEN [st.loc EXCEPT !.fail_count = st.self.check_count.Fail]
    ELSE st.loc

\* the step c of a loop body is taken: the loop goes on, ends, or the call
\* raises (and pc stays where the exception was raised)
Looped(st, c, n, last, after) ==
    IF c.l.raised # None
    THEN [st EXCEPT !.self = c.s, !.loc = c.l, !.lookups = @ + n]
    ELSE [st EXCEPT !.self = c.s, !.loc = c.l, !.i = @ + 1, !.lookups = @ + n,
                    !.pc = IF st.i = last THEN after ELSE st.pc]

LoopedPackage(st, c, last) == Looped(st, c, c.n, last, "packages_end")

Stepped(st, c, to) ==
    IF c.l.raised # None
    THEN [st EXCEPT !.self = c.s, !.loc = c.l]
    ELSE [st EXCEPT !.self = c.s, !.loc = c.l, !.pc = to, !.i = 1]

\* lines 199-200
FilesPackagesValid(c) ==
    [c EXCEPT !.l.files_valid = TRUE, !.l.packages_valid = TRUE]

\* one step of audit_sbom from position st.pc
AuditStep(st, sb, reg) ==
    CASE st.pc = "document" ->
           Stepped(st, FilesPackagesValid(
                           AuditDocumentStep(st.self, st.loc, sb.document,
                                             sb.relationships)),
                   AfterDocument(sb))
      [] st.pc = "files" ->
           Looped(st, AuditFileStep(st.self, EnterLoop(st), sb.files[st.i]), 0,
                  Len(sb.files), "files_end")
      [] st.pc = "files_end" ->
           [st EXCEPT !.self = FilesEnd(st.self, st.loc),
                      !.pc = AfterFiles(sb), !.i = 1]
      [] st.pc = "packages" ->
           LoopedPackage(st, AuditPackageStep(st.self, EnterLoop(st), reg,
                                              sb.packages[st.i]),
                         Len(sb.packages))
      [] st.pc = "packages_end" ->
           [st EXCEPT !.self = PackagesEnd(st.self, st.loc),
                      !.pc = "relationships", !.i = 1]
      [] st.pc = "relationships" ->
           Stepped(st, AuditRelationshipsStep(st.self, st.loc, sb.files, sb.packages,
                                              sb.relationships),
                   "summary")
      [] st.pc = "summary" ->
           Stepped(st, AuditSummaryStep(st.self, st.loc), "done")
      [] OTHER -> st

\* audit_sbom run to its end: to its return or to the exception that ends it
RECURSIVE audit_sbom(_, _, _)
audit_sbom(st, sb, reg) ==
    IF st.pc = "done" \/ st.loc.raised # None THEN st
    ELSE audit_sbom(AuditStep(st, sb, reg), sb, reg)

\* the call audit_sbom(sbom_parser) on object s
Call(s) == [self |-> s, loc |-> NewFrame, pc |-> "document", i |-> 1, lookups |-> 0]

Current == [self |-> self, loc |-> loc, pc |-> pc, i |-> i, lookups |-> lookups]

\* the variables take the values of the call st
Becomes(st) ==
    /\ self' = st.self
    /\ loc' = st.loc
    /\ pc' = st.pc
    /\ i' = st.i
    /\ lookups' = st.lookups

\* the running call takes its next step
Advanced == Becomes(AuditStep(Current, sbom, registry))

\* lines 152-205
AuditDocument ==
    /\ pc = "document"
    /\ loc.raised = None
    /\ Advanced
    /\ UNCHANGED <<sbom, registry, cli>>

\* lines 210-324, one file
AuditFile ==
    /\ pc = "files"
    /\ loc.raised = None
    /\ Advanced
    /\ UNCHANGED <<sbom, registry, cli>>

\* lines 325-334
AuditFilesEnd ==
    /\ pc = "files_end"
    /\ loc.raised = None
    /\ Advanced
    /\ UNCHANGED <<sbom, registry, cli>>

\* lines 339-515, one package
AuditPackage ==
    /\ pc = "packages"
    /\ loc.raised = None
    /\ Advanced
    /\ UNCHANGED <<sbom, registry, cli>>

\* lines 516-525
AuditPackagesEnd ==
    /\ pc = "packages_end"
    /\ loc.raised = None
    /\ Advanced
    /\ UNCHANGED <<sbom, registry, cli>>

\* lines 527-565
AuditRelationships ==
    /\ pc = "relationships"
    /\ loc.raised = None
    /\ Advanced
    /\ UNCHANGED <<sbom, registry, cli>>

\* lines 567-594
AuditSummary ==
    /\ pc = "summary"
    /\ loc.raised = None
    /\ Advanced
    /\ UNCHANGED <<sbom, registry, cli>>

NextAudit ==
    \/ AuditDocument
    \/ AuditFile
    \/ AuditFilesEnd
    \/ AuditPackage
    \/ AuditPackagesEnd
    \/ AuditRelationships
    \/ AuditSummary

\* ------------------------------------------------------------- inputs
\* the records lib4sbom's parser hands over (dict.get(key, None) is the field)
File(id, name, filetype, license, copyright) ==
    [id |-> id, name |-> name, filetype |-> filetype,
     licenseconcluded |-> license, copyrighttext |-> copyright]

Package(id, name, version, supplier, license, refs) ==
    [id |-> id, name |-> name, version |-> version, supplier |-> supplier,
     licenseconcluded |-> license, externalreference |-> refs]

Document(type, version, created, creator) ==
    [type |-> type, version |-> version, created |-> created, creator |-> creator]

Relationship(source, target) == [source |-> source, target |-> target]

\* all sequences over S of length at most n
SeqUpTo(S, n) == UNION {[1..m -> S] : m \in 0..n}

\* a registry that knows no package
NoRegistry == [names |-> {}, latest |-> None, age |-> [v \in {} |-> NoDate]]

\* a file named on the command line ("" when the option is not given): whether
\* it exists, and its lines, each line the sequence of its pieces
NoFile == [name |-> "", exists |-> FALSE, lines |-> <<>>]

\* main() is not involved: audit_sbom is called on an object built with these
\* options and this output argument
NoCli(options, output) ==
    [entry |-> "library", input_file |-> "", exists |-> FALSE, output_file |-> output,
     allow |-> NoFile, deny |-> NoFile, options |-> options,
     ntia_compliance |-> FALSE, exit_code |-> 0, exited |-> FALSE, written |-> FALSE]

\* the object audit_sbom is called on: constructed, then its lists loaded
Constructed(options, output, allow, deny) ==
    [SBOMaudit(options, output) EXCEPT !.allow_list = allow, !.deny_list = deny]

\* the state in which audit_sbom(sbom_parser) is entered on a new object
InitCall(options, output, allow, deny, sb, reg) ==
    /\ cli = NoCli(options, output)
    /\ sbom = sb
    /\ registry = reg
    /\ self = Constructed(options, output, allow, deny)
    /\ loc = NewFrame
    /\ pc = "document"
    /\ i = 1
    /\ lookups = 0

\* --- Spec: documents, files and packages that differ in the minimum elements
Documents ==
    {Document("spdx", "SPDX-2.3", "2023-01-01T00:00:00Z", <<"Tool: sbom4python">>),
     Document("CycloneDX", "1.2", "2023-01-01T00:00:00Z", <<"Tool: sbom4python">>),
     Document("spdx", "SPDX-2.3", None, <<"Tool: sbom4python">>),
     Document("spdx", "SPDX-2.3", "2023-01-01T00:00:00Z", <<>>),
     Document(None, None, None, <<>>),
     Document(None, "SPDX-2.3", "2023-01-01T00:00:00Z", <<"Tool: sbom4python">>)}

Files ==
    {File(id, name, None, "MIT", None) :
        id \in {None, "SPDXRef-File"}, name \in {None, "foo.c"}}

Packages ==
    {Package("SPDXRef-1", "foo", "1.0", "ACME", "MIT", <<>>),
     Package(None, "foo", "1.0", "ACME", "MIT", <<>>),
     Package("SPDXRef-1", None, "1.0", "ACME", "MIT", <<>>),
     Package("SPDXRef-1", "foo", None, "ACME", "MIT", <<>>),
     Package("SPDXRef-1", "foo", "1.0", None, "MIT", <<>>),
     Package("SPDXRef-1", "foo", "1.0", NOASSERTION, "MIT", <<>>)}

Relationships == {Relationship("foo", "foo.c")}

Sbom(d, f, p, r) == [document |-> d, files |-> f, packages |-> p, relationships |-> r]

\* a few files and packages, enough to make each section valid, invalid or empty
FewFiles == {<<>>, <<File("SPDXRef-File", "foo.c", None, "MIT", None)>>,
             <<File("SPDXRef-File", None, None, "MIT", None)>>}

FewPackages == {<<>>, <<Package("SPDXRef-1", "foo", "1.0", "ACME", "MIT", <<>>)>>,
                <<Package("SPDXRef-1", "foo", None, "ACME", "MIT", <<>>)>>}

\* every document with few records, and the first two documents with every
\* sequence of files, or of packages
Sboms ==
    LET R == SeqUpTo(Relationships, MaxRelationships)
        D == {Document("spdx", "SPDX-2.3", "2023-01-01T00:00:00Z", <<"Tool: sbom4python">>),
              Document(None, None, None, <<>>)}
    IN {Sbom(d, f, p, r) : d \in Documents, f \in FewFiles, p \in FewPackages, r \in R}
       \cup {Sbom(d, f, p, r) : d \in D, f \in SeqUpTo(Files, MaxFiles),
                                p \in FewPackages, r \in R}
       \cup {Sbom(d, f, p, r) : d \in D, f \in FewFiles,
                                p \in SeqUpTo(Packages, MaxPackages), r \in R}

Init ==
    \E sb \in Sboms :
        InitCall(DefaultOptions, "out.json", EmptyDict, EmptyDict, sb, NoRegistry)

Next == NextAudit

Spec == Init /\ [][Next]_vars

\* ------------------------------------------------- what the claims speak of
Returned == pc = "done"
Aborted == loc.raised # None

\* the verdict audit_sbom returns
Verdict == loc.valid_sbom

\* the calls of the recorder with this text, and those of them that failed
CallsOf(text) == {k \in 1..Len(self.calls) : self.calls[k].text[1] = text}
FailedOf(text) == {k \in CallsOf(text) : ~self.calls[k].state}

\* a record that lacks a minimum element
FileMissing(f) == f.id = None \/ f.name = None
PackageMissing(p) ==
    p.id = None \/ p.name = None \/ p.version = None
        \/ p.supplier = None \/ p.supplier = NOASSERTION

SomeFileMissing == \E k \in 1..Len(sbom.files) : FileMissing(sbom.files[k])
SomePackageMissing == \E k \in 1..Len(sbom.packages) : PackageMissing(sbom.packages[k])

\* the five conditions of the verdict, read off the SBOM
FiveHold ==
    /\ ~SomeFileMissing
    /\ ~SomePackageMissing
    /\ Len(sbom.document.creator) > 0
    /\ sbom.document.created # None
    /\ Len(sbom.relationships) > 0

\* C1 as claimed: the returned verdict is true iff the files are valid, the
\* packages are valid, the creator list is not empty, the creation time is
\* present and there is at least one relationship.
C1_AsClaimed == Returned => (Verdict <=> FiveHold)

\* C1, amended: the returned verdict is true iff the document kind is
\* determined and the five conditions hold.
C1_Verdict == Returned => (Verdict <=> (sbom.document.type # None /\ FiveHold))

C1_Witness == Returned /\ Verdict /\ Len(sbom.files) > 0 /\ Len(sbom.packages) > 0

\* the call ended, and no earlier than in the package section
EndedFromPackages == Returned \/ (Aborted /\ pc \in {"packages", "summary"})

\* C2: when some package lacks its identifier, name, version or supplier, or has
\* the supplier NOASSERTION, wherever it stands in the sequence, the audit
\* records a failed package "NTIA compliant" check and returns the verdict false.
C2_AsClaimed ==
    (SomePackageMissing /\ EndedFromPackages)
        => (Returned /\ ~loc.packages_valid /\ FailedOf("NTIA compliant") # {}
              /\ ~Verdict)

\* the call ended, and no earlier than in the file section
EndedFromFiles == Returned \/ (Aborted /\ pc = "files")

\* C3: when some file lacks its identifier or its name, wherever it stands in the
\* sequence, the audit records a failed file "NTIA compliant" check and returns
\* the verdict false.
C3_AsClaimed ==
    (SomeFileMissing /\ EndedFromFiles)
        => (Returned /\ ~loc.files_valid /\ FailedOf("NTIA compliant") # {}
              /\ ~Verdict)

\* C4: audit_sbom never aborts: no step of it raises, whatever the records are,
\* and a record without identifier yields exactly one failed check.
C4_AsClaimed ==
    /\ ~Aborted
    /\ Cardinality(FailedOf("File id missing"))
           <= Cardinality({k \in 1..Len(sbom.files) : sbom.files[k].id = None})
    /\ Cardinality(FailedOf("Package id missing"))
           <= Cardinality({k \in 1..Len(sbom.packages) : sbom.packages[k].id = None})

\* C9: with the document kind undetermined the audit records the one failure
\* "SBOM Format: INVALID" and no version, creator or creation-time check, and
\* for every set of files, packages and relationships it runs to completion and
\* returns the verdict false.
C9_AsClaimed ==
    sbom.document.type = None
        => /\ ~Aborted
           /\ pc # "document" =>
                 /\ Cardinality(FailedOf("SBOM Format")) = 1
                 /\ CallsOf("SBOM Creator identified") = {}
                 /\ CallsOf("SBOM Creation time defined") = {}
                 /\ CallsOf("Up to date SPDX Version") = {}
                 /\ CallsOf("Up to date CycloneDX Version") = {}
                 /\ ~loc.creator_identified /\ ~loc.relationships_valid
           /\ Returned => ~Verdict

\* ----------------------------------------------- SpecRecorder: the recorder
\* The recorder called directly, on an object built with any verbose setting
\* and with or without the console.
NotCalled == "not called"

InitRecorder ==
    \E verbose \in BOOLEAN, output \in {"", "out.json"} :
        /\ cli = NoCli([DefaultOptions EXCEPT !.verbose = verbose], output)
        /\ self = Constructed(cli.options, output, EmptyDict, EmptyDict)
        /\ sbom = Sbom(Document(None, None, None, <<>>), <<>>, <<>>, <<>>)
        /\ registry = NoRegistry
        /\ loc = NewFrame
        /\ pc = NotCalled
        /\ i = 1
        /\ lookups = 0

\* self._check(text, value, failure_text, policy)
Check ==
    /\ pc = NotCalled
    /\ Len(self.calls) < MaxCalls
    /\ \E value \in BOOLEAN, failure_text \in {MISSING, <<>>}, policy \in BOOLEAN :
          self' = _check(self, <<"Supplier included for package ", "foo">>, value,
                         failure_text, policy)
    /\ UNCHANGED <<loc, pc, i, sbom, registry, lookups, cli>>

\* self._check_value(text, values, data_item)
CheckValue ==
    /\ pc = NotCalled
    /\ Len(self.calls) < MaxCalls
    /\ \E data_item \in {"SPDX-2.3", "SPDX-2.1", None} :
          self' = _check_value(self, <<"Up to date SPDX Version">>, SPDX_VERSIONS,
                               data_item)
    /\ UNCHANGED <<loc, pc, i, sbom, registry, lookups, cli>>

NextRecorder == Check \/ CheckValue

SpecRecorder == InitRecorder /\ [][NextRecorder]_vars

\* the number of recorder calls of a tier
TierCalls(policy) ==
    Cardinality({k \in 1..Len(self.calls) : self.calls[k].policy = policy})

\* Pass + Fail of each tier is the number of checks recorded in the tier
TierTotals ==
    /\ self.check_count.Pass + self.check_count.Fail = TierCalls(FALSE)
    /\ self.policy_check_count.Pass + self.policy_check_count.Fail = TierCalls(TRUE)

\* the four counters, in the order ordinary Pass, ordinary Fail, policy Pass,
\* policy Fail
Counters(s) ==
    <<s.check_count.Pass, s.check_count.Fail,
      s.policy_check_count.Pass, s.policy_check_count.Fail>>

\* the counter a call of this state and tier belongs to
CounterOf(state, policy) ==
    IF ~policy THEN (IF state THEN 1 ELSE 2) ELSE (IF state THEN 3 ELSE 4)

\* a call of the recorder adds one to the counter of its state and tier and
\* leaves the three others as they are
OneCounterStep ==
    Len(self'.calls) = Len(self.calls) + 1
        => LET call == self'.calls[Len(self'.calls)]
           IN \A c \in 1..4 :
                 Counters(self')[c] =
                     Counters(self)[c]
                         + (IF c = CounterOf(call.state, call.policy) THEN 1 ELSE 0)

\* C5: every call of the recorder changes exactly one of the four counters, by
\* +1: the Pass or Fail counter, by the state of the check, of the tier of the
\* check; hence Pass + Fail of each tier is the number of checks of the tier.
C5_OneCounter == [][OneCounterStep]_vars /\ []TierTotals

C5_Witness ==
    /\ pc = NotCalled
    /\ self.policy_check_count.Pass = 1
    /\ self.policy_check_count.Fail = 1
    /\ self.check_count.Fail = 1

\* --------------------------------------- SpecPolicy: allow and deny lists
\* The audit of a valid document whose files and packages differ in identifier,
\* name and license, under every combination of an allow list and a deny list
\* that declare the license category, the package category, both or neither.
PolicyList(categories) ==
    [k \in categories |-> IF k = "license" THEN <<"MIT">> ELSE <<"foo">>]

PolicyLists == {PolicyList(c) : c \in SUBSET {"license", "package"}}

PolicyFiles ==
    {File("SPDXRef-F1", "foo.c", None, "MIT", None),
     File("SPDXRef-F2", "bar.c", None, "GPL-3.0", None),
     File(None, "foo.c", None, "MIT", None),
     File("SPDXRef-F3", None, None, "MIT", None)}

PolicyPackages ==
    {Package("SPDXRef-1", "foo", "1.0", "ACME", "MIT", <<>>),
     Package("SPDXRef-2", "bar", "1.0", "ACME", "GPL-3.0", <<>>),
     Package(None, "foo", "1.0", "ACME", "MIT", <<>>),
     Package("SPDXRef-3", None, "1.0", "ACME", "MIT", <<>>),
     Package("SPDXRef-4", "foo", "1.0", "ACME", None, <<>>)}

ValidDocument ==
    Document("spdx", "SPDX-2.3", "2023-01-01T00:00:00Z", <<"Tool: sbom4python">>)

PolicySboms ==
    {Sbom(ValidDocument, f, <<>>, <<>>) : f \in SeqUpTo(PolicyFiles, MaxFiles)}
    \cup {Sbom(ValidDocument, f, p, <<>>) :
             f \in {<<>>, <<File("SPDXRef-F1", "foo.c", None, "MIT", None)>>},
             p \in SeqUpTo(PolicyPackages, MaxPackages)}

InitPolicy ==
    \E allow \in PolicyLists, deny \in PolicyLists, sb \in PolicySboms :
        InitCall(DefaultOptions, "out.json", allow, deny, sb, NoRegistry)

SpecPolicy == InitPolicy /\ [][Next]_vars

\* the number of files, and of packages, whose loop iteration is over
FilesDone ==
    IF pc \in {"main", "parse_file", "document"} THEN 0
    ELSE IF pc = "files" THEN i - 1
    ELSE Len(sbom.files)

PackagesDone ==
    IF pc \in {"main", "parse_file", "document", "files", "files_end"} THEN 0
    ELSE IF pc = "packages" THEN i - 1
    ELSE Len(sbom.packages)

HasId(record) == record.id # None

Named(record) == record.id # None /\ record.name # None

AuditedFiles == SelectSeq(SubSeq(sbom.files, 1, FilesDone), HasId)

AuditedPackages == SelectSeq(SubSeq(sbom.packages, 1, PackagesDone), Named)

FileKey(file) == IF file.name # None THEN file.name ELSE file.id

LicenseOf(package) ==
    IF package.licenseconcluded = None THEN NOT_KNOWN ELSE package.licenseconcluded

\* the recorded checks whose message starts with label, for files (the message
\* names the record next) or for packages (the message says "package " next):
\* the record named, the state and the tier of each, in the order recorded
IsKeyedCheck(call) == Len(call.text) = 2

IsPackageKeyedCheck(call) == Len(call.text) = 3

Outcome(call) == <<call.text[Len(call.text)], call.state, call.policy>>

Outcomes(calls) == [k \in 1..Len(calls) |-> Outcome(calls[k])]

ChecksOf(label) ==
    Outcomes(SelectSeq(self.calls,
                       LAMBDA call : call.text[1] = label /\ IsKeyedCheck(call)))

PackageChecksOf(label) ==
    Outcomes(SelectSeq(self.calls,
                       LAMBDA call : call.text[1] = label /\ IsPackageKeyedCheck(call)))

\* the policy checks a list asks for: for each record one check, which passes
\* as the value is in the list (allow) or is not in it (deny); none when the
\* list does not declare the category
Asked(list, category, records, Key(_), Value(_), passIfListed) ==
    IF ~Declared(list, category) THEN <<>>
    ELSE [k \in 1..Len(records) |->
            <<Key(records[k]),
              InList(Value(records[k]), list[category]) <=> passIfListed,
              TRUE>>]

FileLicense(file) == file.licenseconcluded

NameOf(record) == record.name

\* C6 (as amended): the allow checks recorded are those the allow list asks for
\* and the deny checks those the deny list asks for, one per file that has an
\* identifier and one per package that has an identifier and a name, whatever
\* the other list holds; a category declared in no list leaves no allow or deny
\* check, and the policy counters count these checks only.
C6_Independent ==
    /\ ChecksOf("Allowed License check for ")
          = Asked(self.allow_list, "license", AuditedFiles, FileKey, FileLicense, TRUE)
    /\ ChecksOf("Denied License check for ")
          = Asked(self.deny_list, "license", AuditedFiles, FileKey, FileLicense, FALSE)
    /\ PackageChecksOf("Allowed License check for ")
          = Asked(self.allow_list, "license", AuditedPackages, NameOf, LicenseOf, TRUE)
    /\ PackageChecksOf("Denied License check for ")
          = Asked(self.deny_list, "license", AuditedPackages, NameOf, LicenseOf, FALSE)
    /\ ChecksOf("Allowed Package check for package ")
          = Asked(self.allow_list, "package", AuditedPackages, NameOf, NameOf, TRUE)
    /\ ChecksOf("Denied Package check for package ")
          = Asked(self.deny_list, "package", AuditedPackages, NameOf, NameOf, FALSE)
    /\ self.policy_check_count.Pass + self.policy_check_count.Fail
          = (IF Declared(self.allow_list, "license") THEN 1 ELSE 0)
                * (Len(AuditedFiles) + Len(AuditedPackages))
            + (IF Declared(self.deny_list, "license") THEN 1 ELSE 0)
                * (Len(AuditedFiles) + Len(AuditedPackages))
            + (IF Declared(self.allow_list, "package") THEN 1 ELSE 0)
                * Len(AuditedPackages)
            + (IF Declared(self.deny_list, "package") THEN 1 ELSE 0)
                * Len(AuditedPackages)

Range(f) == {f[x] : x \in DOMAIN f}

\* a file under MIT is allowed by the one list and denied by the other
C6_Witness ==
    /\ Returned
    /\ Declared(self.allow_list, "license")
    /\ Declared(self.deny_list, "license")
    /\ <<"foo.c", TRUE, TRUE>> \in Range(ChecksOf("Allowed License check for "))
    /\ <<"foo.c", FALSE, TRUE>> \in Range(ChecksOf("Denied License check for "))
    /\ Len(AuditedPackages) > 0

\* the files of a name, and the recorded checks that name it
FilesNamed(name) == {k \in 1..Len(sbom.files) : sbom.files[k].name = name}

ChecksNaming(checks, name) == {k \in 1..Len(checks) : checks[k][1] = name}

\* C6 (as claimed): in a call that returned, every file with a name has its
\* allow check when the allow list declares the license category, and its deny
\* check when the deny list does.
C6_AsClaimed ==
    Returned =>
        \A name \in {"foo.c", "bar.c"} :
            /\ Declared(self.allow_list, "license") =>
                  Cardinality(ChecksNaming(ChecksOf("Allowed License check for "),
                                           name))
                      = Cardinality(FilesNamed(name))
            /\ Declared(self.deny_list, "license") =>
                  Cardinality(ChecksNaming(ChecksOf("Denied License check for "),
                                           name))
                      = Cardinality(FilesNamed(name))

\* ------------------------------- SpecFresh: external references, freshness
\* The audit of packages that carry external references, against registries
\* that know the package or not, with the offline, purlcheck (with cpecheck)
\* and debug options on or off. Every record has its identifier.
PYPI_FOO == <<"PACKAGE-MANAGER", "purl", "pkg:pypi/foo@1.0">>
NPM_FOO == <<"PACKAGE_MANAGER", "purl", "pkg:npm/foo@1.0">>
PYPI_BAR == <<"PACKAGE-MANAGER", "purl", "pkg:pypi/bar@1.0">>
NO_PURL == <<"PACKAGE-MANAGER", "purl", "foo 1.0">>
CPE_FOO == <<"SECURITY", "cpe23Type", "cpe:2.3:a:acme:foo:1.0">>

Foo(refs) == Package("SPDXRef-1", "foo", "1.0", "ACME", "MIT", refs)

FreshPackages ==
    {Foo(refs) : refs \in {<<>>, <<PYPI_FOO>>, <<NPM_FOO>>, <<PYPI_BAR>>, <<NO_PURL>>,
                            <<CPE_FOO>>, <<NO_PURL, PYPI_FOO>>, <<PYPI_FOO, NO_PURL>>,
                            <<PYPI_FOO, CPE_FOO>>}}
    \cup {Package("SPDXRef-2", None, "1.0", "ACME", "MIT", <<PYPI_FOO>>),
          Package("SPDXRef-3", "foo", None, "ACME", "MIT", <<PYPI_FOO>>)}

FewFreshPackages == {Foo(<<>>), Foo(<<PYPI_FOO>>), Foo(<<NO_PURL>>)}

\* what the registries answer: the packages they know, the latest version, and
\* the age in days of the releases they list
Registry(latest, age) == [names |-> {"foo"}, latest |-> latest, age |-> age]

Registries ==
    {NoRegistry,
     Registry("1.0", [v \in {"1.0"} |-> 800]),
     Registry("2.0", [v \in {"1.0", "2.0"} |-> IF v = "1.0" THEN 800 ELSE 5]),
     Registry("2.0", [v \in {"1.0", "2.0"} |-> 0]),
     Registry("2.0", [v \in {"2.0"} |-> 5])}

FreshOptions ==
    {Options(FALSE, offline, purlcheck, purlcheck, TRUE, 0, 2, debug) :
        offline \in BOOLEAN, purlcheck \in BOOLEAN, debug \in BOOLEAN}

FreshSboms ==
    {Sbom(ValidDocument, <<>>, <<p>>, <<>>) : p \in FreshPackages}
    \cup {Sbom(ValidDocument, f, p, <<>>) :
             f \in {<<>>, <<File("SPDXRef-F1", "foo.c", None, "MIT", None)>>},
             p \in SeqUpTo(FewFreshPackages, MaxPackages)}

InitFresh ==
    \E options \in FreshOptions, sb \in FreshSboms, reg \in Registries :
        InitCall(options, "out.json", EmptyDict, EmptyDict, sb, reg)

SpecFresh == InitFresh /\ [][Next]_vars

\* the call ended: it returned, or an exception left it
Ended == Returned \/ Aborted

\* the same call with the offline option as given
Rerun(offline) ==
    audit_sbom(Call(Constructed([cli.options EXCEPT !.offline = offline],
                                cli.output_file, self.allow_list, self.deny_list)),
               sbom, registry)

\* the freshness checks of the policy tier
FreshnessLabels ==
    {"Using mature version of package ", "Using old version of package "}

FreshnessOutcomes(s) ==
    {k \in 1..Len(s.calls) : s.calls[k].policy /\ s.calls[k].text[1] \in FreshnessLabels}

LatestVersionOutcomes(s) ==
    {k \in 1..Len(s.calls) : s.calls[k].text[1] = "Using latest version of package "}

\* C7 (as claimed): when the online call has returned, the same call made
\* offline issues no lookup, records no freshness outcome of the policy tier,
\* and ends with the ordinary Pass and Fail counters of the online call.
C7_AsClaimed ==
    (Returned /\ ~self.offline) =>
        /\ Rerun(TRUE).lookups = 0
        /\ FreshnessOutcomes(Rerun(TRUE).self) = {}
        /\ Rerun(TRUE).self.check_count = self.check_count

\* the checks of s with this label and this state
Outcomes_Of(s, label, state) ==
    {k \in 1..Len(s.calls) : s.calls[k].text[1] = label /\ s.calls[k].state = state}

\* C7 (as amended): when the online call has returned, the same call made
\* offline issues no lookup and records no freshness outcome of the policy tier
\* and no "Using latest version" check; the ordinary Pass and Fail counters of
\* the online call are those of the offline call plus its passed and its failed
\* "Using latest version" checks; and the "mature version" and "old version"
\* checks are counted in the policy tier only.
C7_OfflineOnline ==
    (Returned /\ ~self.offline) =>
        /\ Rerun(TRUE).lookups = 0
        /\ FreshnessOutcomes(Rerun(TRUE).self) = {}
        /\ LatestVersionOutcomes(Rerun(TRUE).self) = {}
        /\ self.check_count.Pass
              = Rerun(TRUE).self.check_count.Pass
                + Cardinality(Outcomes_Of(self, "Using latest version of package ", TRUE))
        /\ self.check_count.Fail
              = Rerun(TRUE).self.check_count.Fail
                + Cardinality(Outcomes_Of(self, "Using latest version of package ", FALSE))
        /\ \A k \in 1..Len(self.calls) :
              self.calls[k].text[1] \in FreshnessLabels => self.calls[k].policy

\* the online call asked the registry and recorded all three kinds of check
C7_Witness ==
    /\ Returned
    /\ ~self.offline
    /\ lookups > 0
    /\ Outcomes_Of(self, "Using latest version of package ", FALSE) # {}
    /\ Outcomes_Of(self, "Using mature version of package ", TRUE) # {}
    /\ Outcomes_Of(self, "Using old version of package ", FALSE) # {}

\* C8 (as claimed): when the call has ended on an SBOM whose one package has an
\* identifier, a name and one package-manager locator that is no PURL, then,
\* purlcheck being enabled, no exception was raised, one "PURL included" check
\* is recorded, failed, and no "PURL name compatible" check.
C8_AsClaimed ==
    (Ended /\ sbom.packages = <<Foo(<<NO_PURL>>)>> /\ self.purl_check) =>
        /\ ~Aborted
        /\ Cardinality(CallsOf("PURL included for package ")) = 1
        /\ Cardinality(FailedOf("PURL included for package ")) = 1
        /\ CallsOf("PURL name compatible with package ") = {}

\* the same without the debug option: the locator that is no PURL raises nothing
UnparsableWithoutDebug ==
    (Ended /\ sbom.packages = <<Foo(<<NO_PURL>>)>> /\ self.purl_check /\ ~self.debug) =>
        /\ ~Aborted
        /\ Cardinality(CallsOf("PURL included for package ")) = 1
        /\ Cardinality(FailedOf("PURL included for package ")) = 1
        /\ CallsOf("PURL name compatible with package ") = {}

\* the "PURL name compatible" check is recorded only with purlcheck, for a
\* package whose references hold a locator that is a PURL
NameCheckOnlyIfParsed ==
    \A k \in 1..Len(self.calls) :
        self.calls[k].text[1] = "PURL name compatible with package "
            => /\ self.purl_check
               /\ \E p \in 1..Len(sbom.packages) :
                     \E r \in 1..Len(sbom.packages[p].externalreference) :
                        PurlFromString(sbom.packages[p].externalreference[r][3]).ok

\* ------------------------------------------- process_file, _setup (audit.py)
Whitespace == {" ", "\n"}

\* str.strip()
RECURSIVE LStrip(_)
LStrip(line) ==
    IF line # <<>> /\ Head(line) \in Whitespace THEN LStrip(Tail(line)) ELSE line

RECURSIVE RStrip(_)
RStrip(line) ==
    IF line # <<>> /\ line[Len(line)] \in Whitespace
    THEN RStrip(SubSeq(line, 1, Len(line) - 1))
    ELSE line

Strip(line) == RStrip(LStrip(line))

\* str.replace(old, "")
Replace(line, old) == SelectSeq(line, LAMBDA piece : piece # old)

\* str.startswith(prefix)
StartsWith(line, prefix) == line # <<>> /\ Head(line) = prefix

\* the string the pieces make
RECURSIVE Join(_)
Join(line) == IF line = <<>> THEN "" ELSE Head(line) \o Join(Tail(line))

\* data_list[key] = value
Put(data_list, key, value) ==
    [k \in (DOMAIN data_list) \cup {key} |-> IF k = key THEN value ELSE data_list[k]]

\* lines 143-150: one line of a policy file; type is a local of _setup, so an
\* entry above the first header raises UnboundLocalError
SetupLine(st, line) ==
    IF st.raised # None THEN st
    ELSE IF StartsWith(line, "#") THEN st
    ELSE IF StartsWith(line, "[")
    THEN [st EXCEPT !.type = Join(Strip(Replace(Replace(line, "["), "]"))),
                    !.data_list = Put(@, Join(Strip(Replace(Replace(line, "["), "]"))),
                                      <<>>)]
    ELSE IF st.type = Unbound
    THEN [st EXCEPT !.raised = "UnboundLocalError"]
    ELSE [st EXCEPT !.data_list[st.type] = Append(@, Join(Strip(line)))]

RECURSIVE SetupLines(_, _)
SetupLines(st, lines) ==
    IF lines = <<>> THEN st
    ELSE SetupLines(SetupLine(st, Head(lines)), Tail(lines))

_setup(lines, data_list) ==
    SetupLines([data_list |-> data_list, type |-> Unbound, raised |-> None], lines)

\* what loading a list left: the object and the exception raised, if any
LoadedAllow(s, st) == [s |-> [s EXCEPT !.allow_list = st.data_list], raised |-> st.raised]

LoadedDeny(s, st) == [s |-> [s EXCEPT !.deny_list = st.data_list], raised |-> st.raised]

\* process_file: "Only process if file exists"
process_file(s, file, allow) ==
    IF ~file.exists THEN [s |-> s, raised |-> None]
    ELSE IF allow THEN LoadedAllow(s, _setup(file.lines, s.allow_list))
    ELSE LoadedDeny(s, _setup(file.lines, s.deny_list))

\* ------------------------------------------------------- main (cli.py)
\* sys.exit(n): the exit status of the process
ExitStatus(n) == n % 256

\* int(b)
int(b) == IF b THEN 1 ELSE 0

\* main returns n and the process exits
Exits(n) == cli' = [cli EXCEPT !.exit_code = ExitStatus(n), !.exited = TRUE]

\* lines 176-177, 178-179
AllowLoaded(s) ==
    IF cli.allow.name # "" THEN process_file(s, cli.allow, TRUE)
    ELSE [s |-> s, raised |-> None]

DenyLoaded(c) ==
    IF c.raised # None THEN c
    ELSE IF cli.deny.name # "" THEN process_file(c.s, cli.deny, FALSE)
    ELSE c

\* the object is built and its lists are loaded: audit_sbom is entered, or the
\* exception of _setup leaves main
Entered(c) ==
    /\ self' = c.s
    /\ loc' = [NewFrame EXCEPT !.raised = c.raised]
    /\ pc' = IF c.raised # None THEN pc ELSE "document"

\* lines 139-167: the input file must be named
Main ==
    /\ pc = "main"
    /\ ~cli.exited
    /\ IF cli.input_file = ""
       THEN Exits(-1) /\ UNCHANGED pc
       ELSE pc' = "parse_file" /\ UNCHANGED cli
    /\ UNCHANGED <<self, loc, i, sbom, registry, lookups>>

\* lines 169-179 and 186-190: the SBOM is parsed, the object built and its
\* lists loaded; FileNotFoundError is caught and main returns int(False)
ParseFile ==
    /\ pc = "parse_file"
    /\ ~cli.exited
    /\ loc.raised = None
    /\ IF ~cli.exists
       THEN Exits(int(cli.ntia_compliance)) /\ UNCHANGED <<self, loc, pc>>
       ELSE /\ Entered(DenyLoaded(AllowLoaded(SBOMaudit(cli.options, cli.output_file))))
            /\ UNCHANGED cli
    /\ UNCHANGED <<i, sbom, registry, lookups>>

\* lines 180-184 and 190: audit_sbom returned; the report is written when an
\* output file is named, and main returns int(ntia_compliance)
WriteOutput ==
    /\ pc = "done"
    /\ cli.entry = "main"
    /\ ~cli.exited
    /\ cli' = [cli EXCEPT !.ntia_compliance = loc.valid_sbom,
                          !.written = (cli.output_file # ""),
                          !.exit_code = ExitStatus(int(loc.valid_sbom)),
                          !.exited = TRUE]
    /\ UNCHANGED <<self, loc, pc, i, sbom, registry, lookups>>

\* an exception other than FileNotFoundError leaves main: the interpreter
\* prints the traceback and the process exits with status 1
Uncaught ==
    /\ loc.raised # None
    /\ cli.entry = "main"
    /\ ~cli.exited
    /\ Exits(1)
    /\ UNCHANGED <<self, loc, pc, i, sbom, registry, lookups>>

\* --- SpecCli: the command line
HEADER_LICENSE == <<"[", "license", "]", "\n">>
HEADER_PACKAGE == <<"[", "package", "]", "\n">>
COMMENT == <<"#", " approved", "\n">>

PolicyFile(name, exists, lines) == [name |-> name, exists |-> exists, lines |-> lines]

AllowFiles ==
    {NoFile,
     PolicyFile("allow.txt", FALSE, <<>>),
     PolicyFile("allow.txt", TRUE, <<COMMENT, HEADER_LICENSE, <<" ", "MIT", "\n">>>>),
     PolicyFile("allow.txt", TRUE, <<<<"MIT", "\n">>, HEADER_LICENSE>>)}

DenyFiles ==
    {NoFile,
     PolicyFile("deny.txt", TRUE, <<HEADER_PACKAGE, <<"foo", "\n">>, <<"\n">>>>)}

CliFiles ==
    {<<>>, <<File("SPDXRef-File", "foo.c", None, "MIT", None)>>,
     <<File(None, "foo.c", None, "MIT", None)>>}

CliPackages ==
    {<<>>, <<Foo(<<>>)>>, <<Foo(<<NO_PURL>>)>>,
     <<Package(None, "foo", "1.0", "ACME", "MIT", <<>>)>>}

CliSboms ==
    {Sbom(d, f, p, r) : d \in {ValidDocument, Document(None, None, None, <<>>)},
                        f \in CliFiles, p \in CliPackages,
                        r \in SeqUpTo(Relationships, 1)}

\* the command line and the files it names
Cli(input_file, exists, output_file, allow, deny, options) ==
    [entry |-> "main", input_file |-> input_file, exists |-> exists,
     output_file |-> output_file, allow |-> allow, deny |-> deny, options |-> options,
     ntia_compliance |-> FALSE, exit_code |-> 0, exited |-> FALSE, written |-> FALSE]

CommandLines ==
    {Cli(input[1], input[2], output_file, allow, deny,
         [DefaultOptions EXCEPT !.debug = debug, !.purlcheck = debug]) :
        input \in {<<"", FALSE>>, <<"sbom.json", TRUE>>, <<"sbom.json", FALSE>>},
        output_file \in {"", "out.json"},
        allow \in AllowFiles, deny \in DenyFiles, debug \in BOOLEAN}

\* main is entered; no object is built yet (self shows the object line 175
\* will build, before its lists are loaded)
InitCli ==
    \E c \in CommandLines, sb \in CliSboms :
        /\ cli = c
        /\ sbom = (IF c.exists THEN sb ELSE Sbom(Document(None, None, None, <<>>),
                                                 <<>>, <<>>, <<>>))
        /\ registry = NoRegistry
        /\ self = SBOMaudit(c.options, c.output_file)
        /\ loc = NewFrame
        /\ pc = "main"
        /\ i = 1
        /\ lookups = 0

NextCli ==
    \/ Main
    \/ ParseFile
    \/ AuditDocument
    \/ AuditFile
    \/ AuditFilesEnd
    \/ AuditPackage
    \/ AuditPackagesEnd
    \/ AuditRelationships
    \/ AuditSummary
    \/ WriteOutput
    \/ Uncaught

SpecCli == InitCli /\ [][NextCli]_vars

\* audit_sbom was entered
AuditRun == self.calls # <<>>

\* C10 (as claimed): when the process has exited on a named input file, its
\* exit code is 1 exactly when audit_sbom returned the verdict "compliant",
\* and 0 when it returned "not compliant"; and when the input file does not
\* exist, no audit was run and no report was written.
C10_AsClaimed ==
    (cli.exited /\ cli.input_file # "") =>
        /\ cli.exit_code = 1 <=> (Returned /\ Verdict)
        /\ (Returned /\ ~Verdict) => cli.exit_code = 0
        /\ ~cli.exists => (~AuditRun /\ ~cli.written)

\* the exit code of a call that returned, and the missing input file
ExitCodeOfReturned ==
    cli.exited =>
        /\ Returned => cli.exit_code = int(Verdict)
        /\ (cli.input_file # "" /\ ~cli.exists)
              => (cli.exit_code = 0 /\ ~AuditRun /\ ~cli.written)
        /\ cli.input_file = "" => (cli.exit_code = 255 /\ ~AuditRun /\ ~cli.written)

\* --------------------------------- SpecTwice: audit_sbom called again
\* The caller calls audit_sbom on the same object and the same SBOM again, once
\* the call before has returned.
MaxAudits == 2

\* the calls of audit_sbom on the object that reached the verdict
Audits == Cardinality(CallsOf("NTIA conformant"))

\* lines 152-159: audit_sbom is entered again on the object as the call before
\* left it, with a new frame
AuditAgain ==
    /\ pc = "done"
    /\ cli.entry = "library"
    /\ Audits < MaxAudits
    /\ Becomes(Call(self))
    /\ UNCHANGED <<sbom, registry, cli>>

TwiceSboms ==
    {Sbom(d, f, p, r) : d \in Documents, f \in FewFiles, p \in FewPackages,
                        r \in SeqUpTo(Relationships, MaxRelationships)}

InitTwice ==
    \E verbose \in BOOLEAN, output \in {"", "out.json"}, sb \in TwiceSboms :
        InitCall([DefaultOptions EXCEPT !.verbose = verbose], output,
                 EmptyDict, EmptyDict, sb, NoRegistry)

NextTwice == NextAudit \/ AuditAgain

SpecTwice == InitTwice /\ [][NextTwice]_vars

\* the same call on an object newly built with the same options and lists
FirstCall ==
    audit_sbom(Call(Constructed(cli.options, cli.output_file,
                                self.allow_list, self.deny_list)),
               sbom, registry)

NoCounts == [Fail |-> 0, Pass |-> 0]

\* C11 (as claimed): whenever audit_sbom is entered the report tree is empty and
\* the four counters are zero, and a call that returned on an object audited
\* before left the counters, the report tree, the verdict and the verbose
\* setting of the first call.
C11_AsClaimed ==
    /\ pc = "document" =>
          /\ self.check_count = NoCounts
          /\ self.policy_check_count = NoCounts
          /\ self.audit = EmptyDict
    /\ (Returned /\ Audits = 2) =>
          /\ self.check_count = FirstCall.self.check_count
          /\ self.policy_check_count = FirstCall.self.policy_check_count
          /\ self.audit = FirstCall.self.audit
          /\ Verdict = FirstCall.loc.valid_sbom

\* what does carry over: the second call returns the verdict of the first,
\* adds as many checks as the first made, and starts verbose
SecondCallAdds ==
    /\ (pc = "document" /\ Audits = 1) => self.verbose
    /\ (Returned /\ Audits = 2) =>
          /\ Verdict = FirstCall.loc.valid_sbom
          /\ self.check_count.Pass = 2 * FirstCall.self.check_count.Pass
          /\ self.check_count.Fail = 2 * FirstCall.self.check_count.Fail

\* ------------------------------------------- the relationship auditor
\* the relationship auditor has run
RelationshipsAudited == pc \in {"summary", "done"}

\* the files, then the packages: the subjects in the order of lines 537-556
Subjects == sbom.files \o sbom.packages

HasName(record) == record.name # None

\* the per-subject checks of these subjects: each passes as its name is the
\* source or the target of a relationship
SubjectChecks(subjects) ==
    [k \in 1..Len(subjects) |->
        <<subjects[k].name, dep_check(subjects[k].name, sbom.relationships), FALSE>>]

\* C12 (as claimed): the relationship auditor records one "relationships
\* provided" check and one per-subject check for every file and package that
\* has a name, which passes exactly when the name is an endpoint of some
\* relationship; for a file or package without a name it records no check.
C12_AsClaimed ==
    RelationshipsAudited =>
        /\ Cardinality(CallsOf("Dependency relationships provided for NTIA compliance"))
              = 1
        /\ ChecksOf("Dependency relationship found for ")
              = SubjectChecks(SelectSeq(Subjects, HasName))

\* what is recorded: a per-subject check for every file and package, failed
\* for the subjects without a name
EverySubjectChecked ==
    RelationshipsAudited =>
        /\ Cardinality(CallsOf("Dependency relationships provided for NTIA compliance"))
              = 1
        /\ ChecksOf("Dependency relationship found for ") = SubjectChecks(Subjects)

\* --------------------------------------------- the freshness thresholds
\* what the loop over the external references of an audited package resolved
\* (lines 355-397); the debug print of an audited package raised nothing
Resolved(package) ==
    ExternalRefs([self EXCEPT !.debug = FALSE], registry, package.name,
                 package.version, NoRefs(loc), package.externalreference)

Fresh(label, name, state) == [label |-> label, name |-> name, state |-> state,
                              policy |-> TRUE]

\* the "mature version" check of a package: when a release time was resolved,
\* passed as the age in days exceeds the age option
MatureCheck(package, r) ==
    IF r.latest_date = NoDate THEN <<>>
    ELSE <<Fresh("Using mature version of package ", package.name,
                 r.latest_date > cli.options.age)>>

\* the "old version" check of a package: when a release time and a latest
\* version other than the declared one were resolved, passed as the age in
\* days is below the maxage option in years of 365 days
StaleCheck(package, r) ==
    IF r.latest_date = NoDate \/ r.latest_version = None
          \/ r.latest_version = package.version
    THEN <<>>
    ELSE <<Fresh("Using old version of package ", package.name,
                 r.latest_date < cli.options.maxage * 365)>>

RECURSIVE FreshnessChecks(_)
FreshnessChecks(packages) ==
    IF packages = <<>> THEN <<>>
    ELSE MatureCheck(Head(packages), Resolved(Head(packages)))
         \o StaleCheck(Head(packages), Resolved(Head(packages)))
         \o FreshnessChecks(Tail(packages))

IsFreshnessCheck(call) == call.text[1] \in FreshnessLabels

FreshnessRecorded ==
    [k \in 1..Len(SelectSeq(self.calls, IsFreshnessCheck)) |->
        [label |-> SelectSeq(self.calls, IsFreshnessCheck)[k].text[1],
         name |-> SelectSeq(self.calls, IsFreshnessCheck)[k].text[2],
         state |-> SelectSeq(self.calls, IsFreshnessCheck)[k].state,
         policy |-> SelectSeq(self.calls, IsFreshnessCheck)[k].policy]]

\* C13: the freshness checks recorded so far are, package by package in the
\* order audited, those of the named packages for which a release time was
\* resolved: a policy-tier "mature version" check, whether or not the declared
\* version is the latest, passed exactly when the age in days is greater than
\* the age option; then a policy-tier "old version" check only when a latest
\* version was resolved and differs from the declared one, passed exactly when
\* the age is less than maxage years of 365 days; and neither check for a
\* package with no release time resolved.
C13_Freshness == FreshnessRecorded = FreshnessChecks(AuditedPackages)

\* a returned call that recorded a failed "mature version" check (the release
\* is zero days old) and a passed "old version" check
C13_Witness ==
    /\ Returned
    /\ Outcomes_Of(self, "Using mature version of package ", FALSE) # {}
    /\ Outcomes_Of(self, "Using old version of package ", TRUE) # {}

\* ------------------------------------- the release the age is taken from
\* an audited package of this name whose declared version the registry lists
\* with this age in days (a package with no declared version has none to list)
DeclaredAged(name, Aged(_)) ==
    \E j \in 1..Len(AuditedPackages) :
        /\ AuditedPackages[j].name = name
        /\ \/ AuditedPackages[j].version = None
           \/ /\ AuditedPackages[j].version \in DOMAIN registry.age
              /\ Aged(registry.age[AuditedPackages[j].version])

\* the state a freshness check has when made from a release of this age
FreshAt(check, days) ==
    check.state = IF check.label = "Using mature version of package "
                  THEN days > cli.options.age
                  ELSE days < cli.options.maxage * 365

\* C14 (as claimed): in every ecosystem, each freshness check recorded for a
\* package is made from the age of the release of the version the package
\* declares: the registry lists that version, and the check passes or fails
\* as the age of that release is above the age option (mature version) or
\* below the maxage option (old version).
C14_AsClaimed ==
    \A k \in 1..Len(FreshnessRecorded) :
        DeclaredAged(FreshnessRecorded[k].name,
                     LAMBDA days : FreshAt(FreshnessRecorded[k], days))

IsPypi(ref) == PurlFromString(ref[3]).ok => PurlFromString(ref[3]).type = "pypi"

OnlyPypi ==
    \A p \in 1..Len(sbom.packages) :
        \A r \in 1..Len(sbom.packages[p].externalreference) :
            IsPypi(sbom.packages[p].externalreference[r])

\* in the pypi ecosystem the age is that of the declared version
DeclaredAgeOnPypi == OnlyPypi => C14_AsClaimed

\* ------------------------------ SpecLicense: the license-quality checks
\* The audit of files and packages with and without a license value, with
\* the license_check option on or off. Every record has its identifier.
LicenseFiles ==
    {File("SPDXRef-F1", name, None, license, None) :
        name \in {None, "foo.c"}, license \in {None, "MIT", NOASSERTION}}

LicensePackages ==
    {Package("SPDXRef-1", "foo", "1.0", "ACME", license, <<>>) :
        license \in {None, "MIT"}}

LicenseSboms ==
    {Sbom(ValidDocument, f, p, <<>>) :
        f \in SeqUpTo(LicenseFiles, MaxFiles), p \in SeqUpTo(LicensePackages, 1)}

InitLicense ==
    \E license_check \in BOOLEAN, sb \in LicenseSboms :
        InitCall([DefaultOptions EXCEPT !.license_check = license_check],
                 "out.json", EmptyDict, EmptyDict, sb, NoRegistry)

SpecLicense == InitLicense /\ [][Next]_vars

\* the files are being audited, or have been, and no package has been yet
OnlyFilesAudited == pc \in {"files", "files_end"}

Licensed(file) == file.licenseconcluded # None

QualityLabels ==
    {"SPDX Compatible License id included for ", "OSI Approved license for ",
     "Non-deprecated license for "}

\* C15 (as claimed): while only files have been audited, each of the three
\* license-quality checks has been recorded at most once for every audited
\* file that has a license value when license checking is enabled, so not for
\* a file with no license value, and not at all when it is disabled.
C15_AsClaimed ==
    OnlyFilesAudited =>
        \A label \in QualityLabels :
            Cardinality(CallsOf(label))
                <= IF self.license_check
                   THEN Len(SelectSeq(AuditedFiles, Licensed))
                   ELSE 0

\* what is recorded: the three checks for every file that has an identifier
\* when license checking is enabled, with or without a license value
QualityOfEveryFile ==
    OnlyFilesAudited =>
        \A label \in QualityLabels :
            Cardinality(CallsOf(label))
                = IF self.license_check THEN Len(AuditedFiles) ELSE 0

\* ------------------------------------------------ the policy files loaded
\* main has built the object and loaded its lists, and no exception left it
ListsLoaded == cli.entry = "main" /\ pc \notin {"main", "parse_file"}

\* one line as the claim reads it: a comment and a blank line add nothing, a
\* header opens its category, any other line is added, trimmed, to the
\* category opened last
ClaimedLine(st, line) ==
    IF StartsWith(line, "#") \/ Strip(line) = <<>> THEN st
    ELSE IF StartsWith(line, "[")
    THEN [type |-> Join(Strip(Replace(Replace(line, "["), "]"))),
          data_list |-> Put(st.data_list,
                            Join(Strip(Replace(Replace(line, "["), "]"))), <<>>)]
    ELSE IF st.type = Unbound THEN st
    ELSE [st EXCEPT !.data_list[st.type] = Append(@, Join(Strip(line)))]

RECURSIVE ClaimedLines(_, _)
ClaimedLines(st, lines) ==
    IF lines = <<>> THEN st
    ELSE ClaimedLines(ClaimedLine(st, Head(lines)), Tail(lines))

\* a file that is not named or does not exist leaves the list as it was
ClaimedList(file) ==
    IF file.name = "" \/ ~file.exists THEN EmptyDict
    ELSE ClaimedLines([type |-> Unbound, data_list |-> EmptyDict], file.lines).data_list

\* C16 (as claimed): once main has loaded the policy files, the allow list and
\* the deny list hold, per category opened by a '[category]' line, the trimmed
\* non-blank lines that follow it, nothing for a '#' line and nothing for a
\* blank line; a file that does not exist leaves its list empty.
C16_AsClaimed ==
    ListsLoaded =>
        /\ self.allow_list = ClaimedList(cli.allow)
        /\ self.deny_list = ClaimedList(cli.deny)

HasBlankLine(file) == \E k \in 1..Len(file.lines) : Strip(file.lines[k]) = <<>>

\* the lists of the files without a blank line are as claimed, and a file
\* that does not exist leaves its list empty
ListsWithoutBlankLines ==
    ListsLoaded =>
        /\ ~HasBlankLine(cli.allow) => self.allow_list = ClaimedList(cli.allow)
        /\ ~HasBlankLine(cli.deny) => self.deny_list = ClaimedList(cli.deny)
        /\ ~cli.allow.exists => self.allow_list = EmptyDict

\* ------------------------------------------- the buffers of the recorder
\* the buffer of a tier
Buffer(s, policy) == IF policy THEN s.policy_component ELSE s.component

\* the states of the entries a buffer holds
States(buffer) == [k \in 1..Len(buffer) |-> buffer[k].state]

\* what a call adds to the buffer of its tier: a "Fail" entry when the check
\* failed, a "Pass" entry when it passed and verbose is on, else nothing
Added(call, verbose) ==
    IF ~call.state THEN <<"Fail">>
    ELSE IF verbose THEN <<"Pass">>
    ELSE <<>>

LastCall(s) == s.calls[Len(s.calls)]

\* a call of the recorder extends the buffer of its tier by what it adds and
\* leaves the buffer of the other tier as it is
OneBufferStep ==
    Len(self'.calls) = Len(self.calls) + 1
        => /\ States(Buffer(self', LastCall(self').policy))
                 = States(Buffer(self, LastCall(self').policy))
                   \o Added(LastCall(self'), self.verbose)
           /\ SubSeq(Buffer(self', LastCall(self').policy), 1,
                     Len(Buffer(self, LastCall(self').policy)))
                 = Buffer(self, LastCall(self').policy)
           /\ Buffer(self', ~LastCall(self').policy)
                 = Buffer(self, ~LastCall(self').policy)

\* the same calls made on an object built with these options
RECURSIVE Replayed(_, _)
Replayed(s, calls) ==
    IF calls = <<>> THEN s
    ELSE Replayed(_show_result(s, Head(calls).text, Head(calls).state, None, MISSING,
                               Head(calls).policy),
                  Tail(calls))

\* the counters are those of the same calls made with verbose on or off and
\* with the console sink on or off
CountersWhateverShown ==
    \A verbose \in BOOLEAN, output \in {"", "out.json"} :
        Counters(Replayed(Constructed([cli.options EXCEPT !.verbose = verbose], output,
                                      EmptyDict, EmptyDict),
                          self.calls))
            = Counters(self)

\* C17: every call of the recorder with a failed check appends exactly one
\* "Fail" entry to the buffer of the tier of the check, verbose or not; with a
\* passed check it appends exactly one "Pass" entry to that buffer when
\* verbose is on and nothing when it is off; the buffer of the other tier is
\* left as it is; and the counters are the same whether verbose is on or off
\* and whether the console sink is on or off.
C17_Buffers == [][OneBufferStep]_vars /\ []CountersWhateverShown

\* verbose is off: a passed check left the buffers alone, and a failed check
\* of each tier is in the buffer of its tier
C17_Witness ==
    /\ pc = NotCalled
    /\ ~self.verbose
    /\ \E k \in 1..Len(self.calls) : self.calls[k].state
    /\ States(self.component) = <<"Fail">>
    /\ States(self.policy_component) = <<"Fail">>

\* ------------------- SpecVerdict: the verdict and the options of the audit
\* The audit of the same records under every setting of the options and the
\* lists that select policy checks and optional checks; debug is off.
BothLists == PolicyList({"license", "package"})

VerdictOptions ==
    {Options(verbose, offline, cpecheck, purlcheck, license_check, age, maxage, FALSE) :
        verbose \in BOOLEAN, offline \in BOOLEAN, cpecheck \in BOOLEAN,
        purlcheck \in BOOLEAN, license_check \in BOOLEAN,
        age \in {0, 1000}, maxage \in {2, 3}}

VerdictFiles == {<<>>, <<File("SPDXRef-File", None, None, "MIT", None)>>}

VerdictPackages ==
    {<<Foo(<<PYPI_FOO, CPE_FOO>>)>>,
     <<Foo(<<NO_PURL>>)>>,
     <<Foo(<<NPM_FOO>>), Package(None, "foo", "1.0", "ACME", "MIT", <<>>)>>,
     <<Package("SPDXRef-3", "foo", None, "ACME", "GPL-3.0", <<PYPI_FOO>>)>>}

VerdictSboms ==
    {Sbom(ValidDocument, f, p, r) :
        f \in VerdictFiles, p \in VerdictPackages,
        r \in SeqUpTo(Relationships, MaxRelationships)}

VerdictRegistry ==
    Registry("2.0", [v \in {"1.0", "2.0"} |-> IF v = "1.0" THEN 800 ELSE 5])

InitVerdict ==
    \E options \in VerdictOptions, allow \in {EmptyDict, BothLists},
       deny \in {EmptyDict, BothLists}, sb \in VerdictSboms :
        InitCall(options, "out.json", allow, deny, sb, VerdictRegistry)

SpecVerdict == InitVerdict /\ [][Next]_vars

\* the call on the same records and registry, of an object built with these
\* options and lists
RunWith(options, allow, deny) ==
    audit_sbom(Call(Constructed(options, cli.output_file, allow, deny)), sbom, registry)

OtherList(list) == IF list = EmptyDict THEN BothLists ELSE EmptyDict

OtherAge(age) == IF age = 0 THEN 1000 ELSE 0

OtherMaxage(maxage) == IF maxage = 2 THEN 3 ELSE 2

\* the runs that differ from this one in the allow list, the deny list, or
\* one of age, maxage, offline, license_check, cpecheck, purlcheck, verbose
OtherRuns ==
    {RunWith(cli.options, OtherList(self.allow_list), self.deny_list),
     RunWith(cli.options, self.allow_list, OtherList(self.deny_list)),
     RunWith([cli.options EXCEPT !.age = OtherAge(@)], self.allow_list, self.deny_list),
     RunWith([cli.options EXCEPT !.maxage = OtherMaxage(@)], self.allow_list,
             self.deny_list),
     RunWith([cli.options EXCEPT !.offline = ~@], self.allow_list, self.deny_list),
     RunWith([cli.options EXCEPT !.license_check = ~@], self.allow_list,
             self.deny_list),
     RunWith([cli.options EXCEPT !.cpecheck = ~@], self.allow_list, self.deny_list),
     RunWith([cli.options EXCEPT !.purlcheck = ~@], self.allow_list, self.deny_list),
     RunWith([cli.options EXCEPT !.verbose = ~@], self.allow_list, self.deny_list)}

\* C18: when the call has returned, every call that returns on the same
\* records from an object that differs in the allow list, the deny list, age,
\* maxage, offline, license_check, cpecheck, purlcheck or verbose returns the
\* same verdict. (Every setting of these is an initial state, so the runs
\* that differ in several of them are reached one difference at a time.)
C18_SameVerdict ==
    Returned =>
        \A run \in OtherRuns :
            (run.pc = "done" /\ run.loc.raised = None) => run.loc.valid_sbom = Verdict

\* a returned call with the verdict "compliant" although a policy check
\* failed, and a returned call differing in one option with other counters
C18_Witness ==
    /\ Returned
    /\ Verdict
    /\ self.policy_check_count.Fail > 0
    /\ \E run \in OtherRuns :
          /\ run.pc = "done"
          /\ run.loc.raised = None
          /\ Counters(run.self) # Counters(self)

====
